---- MODULE Spec2Model ----
(***************************************************************************)
(* Model of the accumulable crate: the capability contracts (lib.rs), the  *)
(* synchronous eager reducer and lazy run-splitter (iter.rs), the          *)
(* asynchronous eager reducer and lazy run-splitter (stream.rs) and the    *)
(* fallible asynchronous run-splitter (try_stream.rs).                     *)
(*                                                                         *)
(* One behaviour is one engine instance built by one entry point over one  *)
(* finite source.  The item/accumulator type is the VolumeSize<N> fixture  *)
(* of the test modules (merge = sum, Large iff total >= N).  Every         *)
(* accumulator carries a history field `run`: the volumes of the items     *)
(* that From and the merge operations put into it, in order.               *)
(***************************************************************************)
EXTENDS Integers, Sequences, FiniteSets, TLC

\* ---------------------------------------------------------------- bounds
MaxLen == 4

\* threshold of the fixture: type VolumeSize100 = VolumeSize<100>
N == 100

\* volumes the sources are built from
Volumes == {30, 40, 100}

\* ------------------------------------------------- Option / Poll / Result
None == <<>>
Some(x) == <<x>>

Pending == [kind |-> "Pending"]
Ready(v) == [kind |-> "Ready", value |-> v]
Panic == [kind |-> "Panic"]
NotPolled == [kind |-> "NotPolled"]

Ok(x) == [ok |-> TRUE, v |-> x]
Err == [ok |-> FALSE, e |-> "E"]

\* Ok(opt).transpose()
Transpose(opt) == IF opt = None THEN None ELSE Some(Ok(opt[1]))

\* ------------------------------------------------------ fixture (tests)
\* new that takes a total of exactly N for Small
VolumeSizeNewStrict(volume) ==
    IF volume > N THEN [size |-> "Large", volume |-> volume]
                  ELSE [size |-> "Small", volume |-> volume]

\* VolumeSize::new
VolumeSizeNew(volume) ==
    IF volume >= N THEN [size |-> "Large", volume |-> volume]
                   ELSE [size |-> "Small", volume |-> volume]

\* VolumeSize::volume_value
volume_value(self) == self.volume

\* impl Accumulable for Volume: accumulate_from
VolumeAccumulateFrom(self, rhs) == self + rhs

\* impl Accumulable for VolumeSize: accumulate_from
accumulate_from(self, rhs) ==
    VolumeSizeNew(VolumeAccumulateFrom(volume_value(self), volume_value(rhs)))

\* maybe_accumulate_from that accepts without folding the candidate in
maybe_accumulate_from_unfolded(self, rhs) ==
    IF self.size = "Small"
    THEN [accepted |-> TRUE, self |-> self]
    ELSE [accepted |-> FALSE, self |-> self]

\* impl MaybeAccumulable for VolumeSize: maybe_accumulate_from
maybe_accumulate_from(self, rhs) ==
    IF self.size = "Small"
    THEN [accepted |-> TRUE, self |-> accumulate_from(self, rhs)]
    ELSE [accepted |-> FALSE, self |-> self]

\* ------------------------------ accumulator as the engines hold it (Lhs)
\* seed that starts from the empty accumulator and does not take the item
LhsFromUnseeded(item) == [acc |-> VolumeSizeNew(0), run |-> <<>>]

\* Lhs::from(item): From<T> for T, plus the history of the seed
LhsFrom(item) == [acc |-> item, run |-> <<volume_value(item)>>]

\* lhs.accumulate_from(&rhs) / lhs.accumulate(&rhs)
LhsAccumulate(lhs, rhs) ==
    [acc |-> accumulate_from(lhs.acc, rhs),
     run |-> Append(lhs.run, volume_value(rhs))]

\* lhs.maybe_accumulate_from(&rhs)
LhsMaybeAccumulate(lhs, rhs) ==
    LET r == maybe_accumulate_from(lhs.acc, rhs) IN
    [accepted |-> r.accepted,
     lhs |-> [acc |-> r.self,
              run |-> IF r.accepted THEN Append(lhs.run, volume_value(rhs))
                                    ELSE lhs.run]]

\* --------------------------------------------------------------- sources
ItemSet == {VolumeSizeNew(v) : v \in Volumes}
ResultSet == {Ok(i) : i \in ItemSet} \cup {Err}

SeqsUpTo(S, n) == UNION {[1..k -> S] : k \in 0..n}

Entries == {"IterAccumulate", "IterPartially", "StreamAccumulate",
            "StreamPartially", "TryPartially"}

\* ----------------------------------------------------------------- state
VARIABLES
    entry,      \* the entry point that built this engine
    items,      \* the finite source the engine was built over
    pos,        \* number of items the source has handed out
    peeked,     \* Peekable's lookahead slot: Option<Option<Item>>
    lhs,        \* AccumulatedState of the asynchronous engines
    out,        \* history: the outputs produced so far, in order
    last,       \* history: what the latest query returned
    nones,      \* history: how often the source has answered "exhausted"
    suspended,  \* history: some query has returned Pending
    requeried,  \* history: a query was made after the terminal result
    steps       \* history: the variant changes of lhs, as <<from, to>>

vars == <<entry, items, pos, peeked, lhs, out, last, nones, suspended,
          requeried, steps>>

\* ---------------------------------------------- AccumulatedState (stream.rs)
Uninit == [tag |-> "Uninit"]
Accumulable(l) == [tag |-> "Accumulable", inner |-> l]
Consumed == [tag |-> "Consumed"]

Taken(st) == IF st.tag = "Accumulable" THEN Some(st.inner) ELSE None

\* consume that hands out a default accumulator when nothing is open
consumeDefault(st) ==
    [self |-> Consumed,
     ret |-> IF st.tag = "Accumulable" THEN Some(st.inner)
             ELSE Some(LhsFrom(VolumeSizeNew(0)))]

\* consume that hands the content out and leaves the state as it was
consumeKeep(st) == [self |-> st, ret |-> Taken(st)]

\* AccumulatedState::consume
consume(st) == [self |-> Consumed, ret |-> Taken(st)]

\* reaccumulable that forgets the new seed: the rejected item is dropped
reaccumulableDrop(st, l) == [self |-> Uninit, ret |-> Taken(st)]

\* AccumulatedState::reaccumulable
reaccumulable(st, l) == [self |-> Accumulable(l), ret |-> Taken(st)]

\* reinit that does not hand the open accumulator out
reinitLose(st) == [self |-> Uninit, ret |-> None]

\* reinit that moves to the terminal state while handing the run out
reinitConsume(st) == [self |-> Consumed, ret |-> Taken(st)]

\* AccumulatedState::reinit
reinit(st) == [self |-> Uninit, ret |-> Taken(st)]

\* AccumulatedState::is_consumed
is_consumed(st) == st.tag = "Consumed"

\* FusedFuture / FusedStream ::is_terminated
is_terminated == is_consumed(lhs)

\* --------------------------------------------------- the source sequences
\* Iterator::next of the source iterator (array::IntoIter, fused)
SourceNext(src, p) ==
    IF p < Len(src) THEN [pos |-> p + 1, ret |-> Some(src[p + 1])]
                    ELSE [pos |-> p, ret |-> None]

\* Stream::poll_next of the source stream: it answers Ready for the next
\* `ready` fetches of the current poll and Pending after that
StreamPollNext(src, p, ready) ==
    IF ready = 0 THEN Pending
    ELSE IF p < Len(src) THEN Ready(Some(src[p + 1]))
    ELSE Ready(None)

\* ------------------------------------------- iter.rs: Accumulate::accumulate
\* self.fold(initial, |lhs, rhs| lhs.accumulate(&rhs))
RECURSIVE Fold(_, _, _)
Fold(src, p, acc) ==
    LET n == SourceNext(src, p) IN
    IF n.ret = None THEN acc
    ELSE Fold(src, n.pos, LhsAccumulate(acc, n.ret[1]))

\* accumulate that folds from the start again: the first item counts twice
IterAccumulateRefold(src) ==
    LET first == SourceNext(src, 0) IN
    IF first.ret = None THEN None
    ELSE Some(Fold(src, 0, LhsFrom(first.ret[1])))

\* let initial = Lhs::from(self.next()?); self.fold(..).into()
IterAccumulate(src) ==
    LET first == SourceNext(src, 0) IN
    IF first.ret = None THEN None
    ELSE Some(Fold(src, first.pos, LhsFrom(first.ret[1])))

\* ------------------------------------ iter.rs: PartiallyAccumulated (Peekable)
\* PartiallyAccumulated::new: iter.peekable()
PeekableNew == [pos |-> 0, peeked |-> None]

\* Peekable::next
PeekableNext(src, it) ==
    IF it.peeked # None
    THEN [iter |-> [pos |-> it.pos, peeked |-> None], ret |-> it.peeked[1]]
    ELSE LET n == SourceNext(src, it.pos) IN
         [iter |-> [pos |-> n.pos, peeked |-> None], ret |-> n.ret]

\* peek that takes the item from the source without keeping it
PeekablePeekConsuming(src, it) ==
    IF it.peeked # None
    THEN [iter |-> it, ret |-> it.peeked[1]]
    ELSE LET n == SourceNext(src, it.pos) IN
         [iter |-> [pos |-> n.pos, peeked |-> None], ret |-> n.ret]

\* Peekable::peek
PeekablePeek(src, it) ==
    IF it.peeked # None
    THEN [iter |-> it, ret |-> it.peeked[1]]
    ELSE LET n == SourceNext(src, it.pos) IN
         [iter |-> [pos |-> n.pos, peeked |-> Some(n.ret)], ret |-> n.ret]

\* while let Some(rhs) = self.iter.peek() { .. }
RECURSIVE NextLoop(_, _, _)
NextLoop(src, it, l) ==
    LET pk == PeekablePeek(src, it) IN
    IF pk.ret = None THEN [iter |-> pk.iter, lhs |-> l]
    ELSE LET m == LhsMaybeAccumulate(l, pk.ret[1]) IN
         IF m.accepted
         THEN \* the next turn, on the values this turn has computed
              CHOOSE r \in {NextLoop(src, nx.iter, acc) :
                               nx \in {PeekableNext(src, pk.iter)},
                               acc \in {m.lhs}} : TRUE
         ELSE [iter |-> pk.iter, lhs |-> m.lhs]

\* Iterator for PartiallyAccumulated: next
IterNext(src, it) ==
    LET first == PeekableNext(src, it) IN
    IF first.ret = None THEN [iter |-> first.iter, ret |-> None]
    ELSE LET r == NextLoop(src, first.iter, LhsFrom(first.ret[1])) IN
         [iter |-> r.iter, ret |-> Some(r.lhs)]

\* .collect::<Vec<_>>() over the synchronous splitter
RECURSIVE IterCollectFrom(_, _)
IterCollectFrom(src, it) ==
    LET r == IterNext(src, it) IN
    IF r.ret = None THEN <<>>
    ELSE <<r.ret[1]>> \o IterCollectFrom(src, r.iter)

IterCollect(src) == IterCollectFrom(src, PeekableNew)

\* ------------------------------------------ the poll loops (loop { match })
\* `break value` / the early return of ready!
Break(st, p, result, n) ==
    [done |-> TRUE, lhs |-> st, pos |-> p, result |-> result, nones |-> n]

\* falling out of the match arm, or `continue`: the loop goes round again
Continue(st, p, n) ==
    [done |-> FALSE, lhs |-> st, pos |-> p, result |-> Pending, nones |-> n]

\* ------------------------------------- stream.rs: Future for Accumulated
\* poll, arm S::Uninit
AccumulatedUninit(src, st, p, ready, n) ==
    LET first == StreamPollNext(src, p, ready) IN
    IF first.kind = "Pending" THEN Break(st, p, Pending, n)
    ELSE IF first.value # None
    THEN Continue(Accumulable(LhsFrom(first.value[1])), p + 1, n)
    ELSE LET c == consume(st) IN Break(c.self, p, Ready(c.ret), n + 1)

\* Accumulable arm that re-seeds from the item instead of merging it
AccumulatedAccumulableReseed(src, st, p, ready, n) ==
    LET item == StreamPollNext(src, p, ready) IN
    IF item.kind = "Pending" THEN Break(st, p, Pending, n)
    ELSE IF item.value # None
    THEN Continue(Accumulable(LhsFrom(item.value[1])), p + 1, n)
    ELSE LET c == consume(st) IN Break(c.self, p, Ready(c.ret), n + 1)

\* poll, arm S::Accumulable(inner)
AccumulatedAccumulable(src, st, p, ready, n) ==
    LET item == StreamPollNext(src, p, ready) IN
    IF item.kind = "Pending" THEN Break(st, p, Pending, n)
    ELSE IF item.value # None
    THEN Continue(Accumulable(LhsAccumulate(st.inner, item.value[1])),
                  p + 1, n)
    ELSE LET c == consume(st) IN Break(c.self, p, Ready(c.ret), n + 1)

\* Consumed arm that completes a second time with "nothing"
AccumulatedConsumedAgain(src, st, p, ready, n) ==
    Break(st, p, Ready(None), n)

\* poll, arm S::Consumed
AccumulatedConsumed(src, st, p, ready, n) == Break(st, p, Panic, n)

\* poll: n counts the "exhausted" answers of the source
\* poll: match proj.lhs { .. }, one turn of the loop
AccumulatedMatch(src, st, p, ready, n) ==
    CASE st.tag = "Uninit" ->
           AccumulatedUninit(src, st, p, ready, n)
      [] st.tag = "Accumulable" ->
           AccumulatedAccumulable(src, st, p, ready, n)
      [] st.tag = "Consumed" ->
           AccumulatedConsumed(src, st, p, ready, n)

\* poll: the variant changes the loop makes, turn by turn
RECURSIVE AccumulatedSteps(_, _, _, _, _)
AccumulatedSteps(src, st, p, ready, n) ==
    LET b == AccumulatedMatch(src, st, p, ready, n) IN
    (IF b.lhs.tag # st.tag THEN {<<st.tag, b.lhs.tag>>} ELSE {})
      \cup (IF b.done THEN {}
            ELSE AccumulatedSteps(src, b.lhs, b.pos, ready - 1, b.nones))

RECURSIVE AccumulatedPoll(_, _, _, _, _)
AccumulatedPoll(src, st, p, ready, n) ==
    LET b == AccumulatedMatch(src, st, p, ready, n)
    IN IF b.done THEN b
       ELSE AccumulatedPoll(src, b.lhs, b.pos, ready - 1, b.nones)

\* ---------------------------- stream.rs: Stream for PartiallyAccumulated
\* Uninit arm that keeps waiting at the end of the source
PollNextUninitWaits(src, st, p, ready, n) ==
    LET first == StreamPollNext(src, p, ready) IN
    IF first.kind = "Pending" THEN Break(st, p, Pending, n)
    ELSE IF first.value # None
    THEN Continue(Accumulable(LhsFrom(first.value[1])), p + 1, n)
    ELSE Break(st, p, Pending, n)

\* poll_next, arm S::Uninit
PollNextUninit(src, st, p, ready, n) ==
    LET first == StreamPollNext(src, p, ready) IN
    IF first.kind = "Pending" THEN Break(st, p, Pending, n)
    ELSE IF first.value # None
    THEN Continue(Accumulable(LhsFrom(first.value[1])), p + 1, n)
    ELSE LET c == consume(st) IN Break(c.self, p, Ready(c.ret), n + 1)

\* Accumulable arm that has taken the accumulator out of the state before
\* the fetch and does not put it back when the source is Pending
PollNextAccumulableTaken(src, st, p, ready, n) ==
    LET item == StreamPollNext(src, p, ready) IN
    IF item.kind = "Pending" THEN Break(Uninit, p, Pending, n)
    ELSE IF item.value # None
    THEN LET m == LhsMaybeAccumulate(st.inner, item.value[1]) IN
         IF m.accepted
         THEN Continue(Accumulable(m.lhs), p + 1, n)
         ELSE LET r == reaccumulable(Accumulable(m.lhs),
                                     LhsFrom(item.value[1])) IN
              Break(r.self, p + 1, Ready(r.ret), n)
    ELSE LET r == reinit(st) IN Break(r.self, p, Ready(r.ret), n + 1)

\* poll_next, arm S::Accumulable(inner)
PollNextAccumulable(src, st, p, ready, n) ==
    LET item == StreamPollNext(src, p, ready) IN
    IF item.kind = "Pending" THEN Break(st, p, Pending, n)
    ELSE IF item.value # None
    THEN LET m == LhsMaybeAccumulate(st.inner, item.value[1]) IN
         IF m.accepted
         THEN Continue(Accumulable(m.lhs), p + 1, n)
         ELSE LET r == reaccumulable(Accumulable(m.lhs),
                                     LhsFrom(item.value[1])) IN
              Break(r.self, p + 1, Ready(r.ret), n)
    ELSE LET r == reinit(st) IN Break(r.self, p, Ready(r.ret), n + 1)

\* Consumed arm that starts over: the terminal state is left
PollNextConsumedRestart(src, st, p, ready, n) ==
    Break(Uninit, p, Ready(None), n)

\* Consumed arm that reports "no more output" again instead of panicking
PollNextConsumedAgain(src, st, p, ready, n) == Break(st, p, Ready(None), n)

\* poll_next, arm S::Consumed
PollNextConsumed(src, st, p, ready, n) == Break(st, p, Panic, n)

\* poll_next: match proj.lhs { .. }, one turn of the loop
PollNextMatch(src, st, p, ready, n) ==
    CASE st.tag = "Uninit" ->
           PollNextUninit(src, st, p, ready, n)
      [] st.tag = "Accumulable" ->
           PollNextAccumulable(src, st, p, ready, n)
      [] st.tag = "Consumed" ->
           PollNextConsumed(src, st, p, ready, n)

\* poll_next: the variant changes the loop makes, turn by turn
RECURSIVE PollNextSteps(_, _, _, _, _)
PollNextSteps(src, st, p, ready, n) ==
    LET b == PollNextMatch(src, st, p, ready, n) IN
    (IF b.lhs.tag # st.tag THEN {<<st.tag, b.lhs.tag>>} ELSE {})
      \cup (IF b.done THEN {}
            ELSE PollNextSteps(src, b.lhs, b.pos, ready - 1, b.nones))

RECURSIVE PollNext(_, _, _, _, _)
PollNext(src, st, p, ready, n) ==
    LET b == PollNextMatch(src, st, p, ready, n)
    IN IF b.done THEN b
       ELSE PollNext(src, b.lhs, b.pos, ready - 1, b.nones)

\* ----------------------- try_stream.rs: Stream for TryPartiallyAccumulated
\* Uninit arm that reports the end of the source without consuming the
\* state
TryPollNextUninitIdle(src, st, p, ready, n) ==
    LET first == StreamPollNext(src, p, ready) IN
    IF first.kind = "Pending" THEN Break(st, p, Pending, n)
    ELSE IF first.value # None
    THEN IF first.value[1].ok
         THEN Continue(Accumulable(LhsFrom(first.value[1].v)), p + 1, n)
         ELSE Break(st, p + 1, Ready(Some(Err)), n)
    ELSE Break(st, p, Ready(None), n + 1)

\* poll_next, arm S::Uninit
TryPollNextUninit(src, st, p, ready, n) ==
    LET first == StreamPollNext(src, p, ready) IN
    IF first.kind = "Pending" THEN Break(st, p, Pending, n)
    ELSE IF first.value # None
    THEN IF first.value[1].ok
         THEN Continue(Accumulable(LhsFrom(first.value[1].v)), p + 1, n)
         ELSE Break(st, p + 1, Ready(Some(Err)), n)
    ELSE LET c == consume(st) IN
         Break(c.self, p, Ready(Transpose(c.ret)), n + 1)

\* Accumulable arm that, on a failure, flushes the open run in its place
TryPollNextAccumulableFlush(src, st, p, ready, n) ==
    LET item == StreamPollNext(src, p, ready) IN
    IF item.kind = "Pending" THEN Break(st, p, Pending, n)
    ELSE IF item.value # None
    THEN IF item.value[1].ok
         THEN LET m == LhsMaybeAccumulate(st.inner, item.value[1].v) IN
              IF m.accepted
              THEN Continue(Accumulable(m.lhs), p + 1, n)
              ELSE LET r == reaccumulable(Accumulable(m.lhs),
                                          LhsFrom(item.value[1].v)) IN
                   Break(r.self, p + 1, Ready(Transpose(r.ret)), n)
         ELSE LET r == reinit(st) IN
              Break(r.self, p + 1, Ready(Transpose(r.ret)), n)
    ELSE LET r == reinit(st) IN
         Break(r.self, p, Ready(Transpose(r.ret)), n + 1)

\* poll_next, arm S::Accumulable(inner)
TryPollNextAccumulable(src, st, p, ready, n) ==
    LET item == StreamPollNext(src, p, ready) IN
    IF item.kind = "Pending" THEN Break(st, p, Pending, n)
    ELSE IF item.value # None
    THEN IF item.value[1].ok
         THEN LET m == LhsMaybeAccumulate(st.inner, item.value[1].v) IN
              IF m.accepted
              THEN Continue(Accumulable(m.lhs), p + 1, n)
              ELSE LET r == reaccumulable(Accumulable(m.lhs),
                                          LhsFrom(item.value[1].v)) IN
                   Break(r.self, p + 1, Ready(Transpose(r.ret)), n)
         ELSE Break(st, p + 1, Ready(Some(Err)), n)
    ELSE LET r == reinit(st) IN
         Break(r.self, p, Ready(Transpose(r.ret)), n + 1)

\* Consumed arm that reports "no more output" again instead of panicking
TryPollNextConsumedAgain(src, st, p, ready, n) ==
    Break(st, p, Ready(None), n)

\* poll_next, arm S::Consumed
TryPollNextConsumed(src, st, p, ready, n) == Break(st, p, Panic, n)

\* poll_next: match proj.lhs { .. }, one turn of the loop
TryPollNextMatch(src, st, p, ready, n) ==
    CASE st.tag = "Uninit" ->
           TryPollNextUninit(src, st, p, ready, n)
      [] st.tag = "Accumulable" ->
           TryPollNextAccumulable(src, st, p, ready, n)
      [] st.tag = "Consumed" ->
           TryPollNextConsumed(src, st, p, ready, n)

\* poll_next: the variant changes the loop makes, turn by turn
RECURSIVE TryPollNextSteps(_, _, _, _, _)
TryPollNextSteps(src, st, p, ready, n) ==
    LET b == TryPollNextMatch(src, st, p, ready, n) IN
    (IF b.lhs.tag # st.tag THEN {<<st.tag, b.lhs.tag>>} ELSE {})
      \cup (IF b.done THEN {}
            ELSE TryPollNextSteps(src, b.lhs, b.pos, ready - 1, b.nones))

RECURSIVE TryPollNext(_, _, _, _, _)
TryPollNext(src, st, p, ready, n) ==
    LET b == TryPollNextMatch(src, st, p, ready, n)
    IN IF b.done THEN b
       ELSE TryPollNext(src, b.lhs, b.pos, ready - 1, b.nones)

\* ------------------------------------------- the tests' collect drivers
\* stream.rs tests: .collect::<Vec<_>>().await over stream::iter, which is
\* ready at every fetch
RECURSIVE StreamCollectFrom(_, _, _)
StreamCollectFrom(src, st, p) ==
    LET r == PollNext(src, st, p, Len(src) + 1, 0) IN
    IF r.result.value = None THEN <<>>
    ELSE <<r.result.value[1]>> \o StreamCollectFrom(src, r.lhs, r.pos)

StreamCollect(src) == StreamCollectFrom(src, Uninit, 0)

\* try_stream.rs tests: .try_collect::<Vec<_>>().await, which stops at the
\* first Err
RECURSIVE TryCollectFrom(_, _, _)
TryCollectFrom(src, st, p) ==
    LET r == TryPollNext(src, st, p, Len(src) + 1, 0) IN
    IF r.result.value = None THEN Ok(<<>>)
    ELSE IF ~r.result.value[1].ok THEN Err
    ELSE LET rest == TryCollectFrom(src, r.lhs, r.pos) IN
         IF rest.ok THEN Ok(<<r.result.value[1].v>> \o rest.v) ELSE Err

TryCollect(src) == TryCollectFrom(src, Uninit, 0)

\* tests::partially_accumulate: the twelve volumes and the expected output
ExampleVolumes == <<60, 30, 15, 40, 70, 80, 10, 5, 3, 2, 1, 1>>
ExampleItems == [i \in 1..Len(ExampleVolumes) |->
                   VolumeSizeNew(ExampleVolumes[i])]
ExampleOkItems == [i \in 1..Len(ExampleVolumes) |-> Ok(ExampleItems[i])]
ExampleExpected ==
    << [size |-> "Large", volume |-> 105],
       [size |-> "Large", volume |-> 110],
       [size |-> "Large", volume |-> 100],
       [size |-> "Small", volume |-> 2] >>

\* ------------------------------------------------------------------ Init
\* the state right after the entry point built the engine
Init ==
    /\ entry \in Entries
    /\ items \in (IF entry = "TryPartially" THEN SeqsUpTo(ResultSet, MaxLen)
                                            ELSE SeqsUpTo(ItemSet, MaxLen))
    /\ pos = 0
    /\ peeked = None
    /\ lhs = Uninit
    /\ out = <<>>
    /\ last = NotPolled
    /\ nones = 0
    /\ suspended = FALSE
    /\ requeried = FALSE
    /\ steps = {}

\* the outputs after a query that returned `result`
Emitted(result) ==
    IF result.kind = "Ready" /\ result.value # None
    THEN Append(out, result.value[1])
    ELSE out

\* --------------------------------------------------------------- actions
\* iter::Accumulate::accumulate(self): consumes the iterator, runs once
AccumulateCall ==
    /\ entry = "IterAccumulate"
    /\ last = NotPolled
    /\ LET r == IterAccumulate(items) IN
       /\ last' = Ready(r)
       /\ out' = Emitted(Ready(r))
    /\ pos' = Len(items)
    /\ UNCHANGED <<entry, items, peeked, lhs, nones, suspended, requeried,
                   steps>>

\* iter::PartiallyAccumulated::next
NextCall ==
    /\ entry = "IterPartially"
    /\ LET r == IterNext(items, [pos |-> pos, peeked |-> peeked]) IN
       /\ pos' = r.iter.pos
       /\ peeked' = r.iter.peeked
       /\ last' = Ready(r.ret)
       /\ out' = Emitted(Ready(r.ret))
    /\ requeried' = (requeried \/ last = Ready(None))
    /\ UNCHANGED <<entry, items, lhs, nones, suspended, steps>>

\* stream::Accumulated::poll
AccumulatedPollCall ==
    /\ entry = "StreamAccumulate"
    /\ \E ready \in 0..(Len(items) + 1) :
         LET r == AccumulatedPoll(items, lhs, pos, ready, nones) IN
         /\ steps' = steps \cup AccumulatedSteps(items, lhs, pos, ready, nones)
         /\ lhs' = r.lhs
         /\ pos' = r.pos
         /\ nones' = r.nones
         /\ last' = r.result
         /\ out' = Emitted(r.result)
         /\ suspended' = (suspended \/ r.result.kind = "Pending")
    /\ requeried' = (requeried \/ is_consumed(lhs))
    /\ UNCHANGED <<entry, items, peeked>>

\* stream::PartiallyAccumulated::poll_next
PollNextCall ==
    /\ entry = "StreamPartially"
    /\ \E ready \in 0..(Len(items) + 1) :
         LET r == PollNext(items, lhs, pos, ready, nones) IN
         /\ steps' = steps \cup PollNextSteps(items, lhs, pos, ready, nones)
         /\ lhs' = r.lhs
         /\ pos' = r.pos
         /\ nones' = r.nones
         /\ last' = r.result
         /\ out' = Emitted(r.result)
         /\ suspended' = (suspended \/ r.result.kind = "Pending")
    /\ requeried' = (requeried \/ is_consumed(lhs))
    /\ UNCHANGED <<entry, items, peeked>>

\* try_stream::TryPartiallyAccumulated::poll_next
TryPollNextCall ==
    /\ entry = "TryPartially"
    /\ \E ready \in 0..(Len(items) + 1) :
         LET r == TryPollNext(items, lhs, pos, ready, nones) IN
         /\ steps' = steps \cup TryPollNextSteps(items, lhs, pos, ready, nones)
         /\ lhs' = r.lhs
         /\ pos' = r.pos
         /\ nones' = r.nones
         /\ last' = r.result
         /\ out' = Emitted(r.result)
         /\ suspended' = (suspended \/ r.result.kind = "Pending")
    /\ requeried' = (requeried \/ is_consumed(lhs))
    /\ UNCHANGED <<entry, items, peeked>>

Next ==
    \/ AccumulateCall
    \/ NextCall
    \/ AccumulatedPollCall
    \/ PollNextCall
    \/ TryPollNextCall

Spec == Init /\ [][Next]_vars

\* the caller keeps querying and the source answers every fetch in the end:
\* a query that changes nothing (Pending again at the same fetch) is a
\* stuttering step, so weak fairness of a query forces an answered fetch
FairSpec ==
    /\ Spec
    /\ WF_vars(NextCall)
    /\ WF_vars(AccumulatedPollCall)
    /\ WF_vars(PollNextCall)

\* ================================================================ claims
\* the volumes of a source, in order
VolumesOf(src) == [i \in 1..Len(src) |-> volume_value(src[i])]

\* From(first item), then items 2..k merged unconditionally, left to right
RECURSIVE LeftFold(_, _)
LeftFold(src, k) ==
    IF k = 1 THEN LhsFrom(src[1])
    ELSE LhsAccumulate(LeftFold(src, k - 1), src[k])

\* C1: the synchronous eager reducer returns Some exactly when the source
\* has an item, and then the accumulator is From(first item) with every
\* later item merged in unconditionally, in source order.
C1_EagerReduce ==
    (entry = "IterAccumulate" /\ last.kind = "Ready") =>
        /\ (last.value # None) <=> (Len(items) >= 1)
        /\ Len(items) >= 1 =>
             /\ last.value = Some(LeftFold(items, Len(items)))
             /\ last.value[1].run = VolumesOf(items)

C1_Witness ==
    /\ entry = "IterAccumulate"
    /\ last.kind = "Ready"
    /\ last.value # None
    /\ Len(items) >= 3

\* C2: for a non-empty source and any Pending/Ready schedule the
\* asynchronous eager reducer completes with the value the synchronous
\* eager reducer returns, which is the left fold over the whole source.
C2_AsyncReduceEqualsSync ==
    (entry = "StreamAccumulate" /\ last.kind = "Ready" /\ Len(items) >= 1) =>
        /\ last.value = IterAccumulate(items)
        /\ last.value = Some(LeftFold(items, Len(items)))

C2_Witness ==
    /\ entry = "StreamAccumulate"
    /\ last.kind = "Ready"
    /\ suspended
    /\ Len(items) >= 3

\* C3: over the empty source no entry point ever produces an accumulator:
\* nothing is emitted, the first answer that is not Pending is "nothing"
\* (None), and nothing but that answer precedes a panic.
C3_EmptySource ==
    items = <<>> =>
        /\ out = <<>>
        /\ last.kind = "Ready" => last.value = None
        /\ last.kind = "Panic" => (is_consumed(lhs) /\ nones = 1)
        /\ pos = 0

C3_Witness ==
    /\ items = <<>>
    /\ entry = "TryPartially"
    /\ suspended
    /\ last = Ready(None)

\* ------------------------------------------------------ runs and outputs
\* the item volumes held by a sequence of accumulators, concatenated
RECURSIVE ConcatRuns(_)
ConcatRuns(os) ==
    IF os = <<>> THEN <<>> ELSE os[1].run \o ConcatRuns(Tail(os))

\* the source indices covered by the k-th accumulator of os
RunStart(os, k) == 1 + Len(ConcatRuns(SubSeq(os, 1, k - 1)))
RunEnd(os, k) == Len(ConcatRuns(SubSeq(os, 1, k)))

\* the run src[a..b]: From(src[a]), then every later item offered to
\* maybe_merge in order; ok iff maybe_merge accepted every one of them
RECURSIVE RunFold(_, _, _)
RunFold(src, a, b) ==
    IF b = a THEN [ok |-> TRUE, lhs |-> LhsFrom(src[a])]
    ELSE LET prev == RunFold(src, a, b - 1)
             m == LhsMaybeAccumulate(prev.lhs, src[b])
         IN [ok |-> prev.ok /\ m.accepted, lhs |-> m.lhs]

RECURSIVE SumSeq(_)
SumSeq(q) == IF q = <<>> THEN 0 ELSE q[1] + SumSeq(Tail(q))

IsPrefix(a, b) == Len(a) <= Len(b) /\ a = SubSeq(b, 1, Len(a))

\* the item sitting in Peekable's lookahead slot, if any
HasPeekedItem == peeked # None /\ peeked[1] # None
PeekedRun == IF HasPeekedItem THEN <<volume_value(peeked[1][1])>> ELSE <<>>

\* the items of the run that is open in the asynchronous engine
OpenRun == IF lhs.tag = "Accumulable" THEN lhs.inner.run ELSE <<>>

\* C4: the outputs of the synchronous splitter are exactly the maximal
\* runs: each is From(first item) with every later item of the run accepted
\* by maybe_merge in order, a run stops only before an item maybe_merge
\* rejects or at exhaustion, and the rejected item stays peeked (not
\* consumed) to become the first item of the next run.
C4_SyncMaximalRuns ==
    entry = "IterPartially" =>
        /\ ConcatRuns(out) \o PeekedRun = SubSeq(VolumesOf(items), 1, pos)
        /\ \A k \in 1..Len(out) :
             /\ RunFold(items, RunStart(out, k), RunEnd(out, k))
                  = [ok |-> TRUE, lhs |-> out[k]]
             /\ RunEnd(out, k) < Len(items) =>
                  ~LhsMaybeAccumulate(out[k],
                                      items[RunEnd(out, k) + 1]).accepted
        /\ HasPeekedItem =>
             /\ out # <<>>
             /\ pos = RunEnd(out, Len(out)) + 1
             /\ peeked[1][1] = items[pos]
        /\ last = Ready(None) => ConcatRuns(out) = VolumesOf(items)

C4_Witness ==
    /\ entry = "IterPartially"
    /\ Len(out) >= 2
    /\ Len(out[1].run) >= 2
    /\ HasPeekedItem

\* C5: whatever the Pending/Ready schedule, the asynchronous splitter
\* emits the outputs of the synchronous splitter over the same items, in
\* the same order, and all of them once it has reported no more output.
C5_AsyncSplitEqualsSync ==
    entry = "StreamPartially" =>
        /\ IsPrefix(out, IterCollect(items))
        /\ is_terminated => out = IterCollect(items)

C5_Witness ==
    /\ entry = "StreamPartially"
    /\ is_terminated
    /\ suspended
    /\ Len(out) >= 2

\* C6: in the asynchronous splitter every item pulled from the source is
\* in exactly one accumulator (an emitted one or the open one), in source
\* order; an item maybe_merge rejected seeds the next run at once; when
\* the splitter has terminated the emitted runs are the whole source.
C6_NoItemLost ==
    entry = "StreamPartially" =>
        /\ ConcatRuns(out) \o OpenRun = SubSeq(VolumesOf(items), 1, pos)
        /\ \A k \in 1..Len(out) :
             out[k].acc = VolumeSizeNew(SumSeq(out[k].run))
        /\ (last.kind = "Ready" /\ last.value # None
              /\ lhs.tag = "Accumulable") =>
             lhs.inner = LhsFrom(items[pos])
        /\ is_terminated =>
             (pos = Len(items) /\ ConcatRuns(out) = VolumesOf(items))

C6_Witness ==
    /\ entry = "StreamPartially"
    /\ last.kind = "Ready"
    /\ last.value # None
    /\ lhs.tag = "Accumulable"
    /\ suspended
    /\ Len(out) >= 2

\* C7: merging the outputs of a finished splitter (synchronous or
\* asynchronous) unconditionally, in order, gives the total that eager
\* reduction gives over the whole source.
OutAccs == [k \in 1..Len(out) |-> out[k].acc]
Total(opt) == IF opt = None THEN None ELSE Some(opt[1].acc)

C7_TotalsPreserved ==
    (\/ entry = "IterPartially" /\ last = Ready(None)
     \/ entry = "StreamPartially" /\ is_terminated) =>
        Total(IterAccumulate(OutAccs)) = Total(IterAccumulate(items))

C7_Witness ==
    /\ entry = "IterPartially"
    /\ last = Ready(None)
    /\ Len(out) >= 2
    /\ Len(items) >= 4

\* C8 (as stated): once the asynchronous splitter has reported "no more
\* output", every later query reports "no more output" again.
C8_IdempotentTermination ==
    (entry = "StreamPartially" /\ requeried) => last = Ready(None)

\* C8 (amended): once the asynchronous splitter has reported "no more
\* output" it is terminated for good and has emitted all it ever will; a
\* later query does not report "no more output" again, it panics.
C8_TerminatedQueryPanics ==
    (entry = "StreamPartially" /\ requeried) =>
        /\ last = Panic
        /\ is_terminated
        /\ out = IterCollect(items)

C8_Witness ==
    /\ entry = "StreamPartially"
    /\ requeried
    /\ out # <<>>

\* C9 (as stated): from the query that observes the source exhausted on,
\* also when that exhaustion closed an open run, is_terminated reports
\* true, and later queries that get an answer report "no more output".
C9_ExhaustedMeansTerminated ==
    [][(entry = "StreamPartially" /\ nones' >= 1) =>
         /\ is_consumed(lhs')
         /\ (nones >= 1 /\ last'.kind # "Pending") => last' = Ready(None)
      ]_vars

\* C9 (amended): a query that observes exhaustion with no run open reports
\* "no more output" and is_terminated is true from then on, with no later
\* output; a query whose observed exhaustion closes an open run emits that
\* run and leaves is_terminated false (state uninitialized), and it is the
\* next answered query, observing exhaustion again, that reports "no more
\* output" and makes is_terminated true.
C9_TerminatedAfterEmptyExhaustion ==
    [][entry = "StreamPartially" =>
         /\ nones' > nones =>
              \/ /\ is_consumed(lhs')
                 /\ last' = Ready(None)
                 /\ out' = out
              \/ /\ lhs' = Uninit
                 /\ nones' = 1
                 /\ last'.kind = "Ready"
                 /\ last'.value # None
                 /\ out' = Append(out, last'.value[1])
         /\ (nones = 1 /\ ~is_consumed(lhs) /\ last'.kind # "Pending") =>
              (last' = Ready(None) /\ is_consumed(lhs') /\ nones' = 2)
         /\ is_consumed(lhs) => (is_consumed(lhs') /\ out' = out)
         /\ is_consumed(lhs') => nones' >= 1
      ]_vars

C9_Witness ==
    /\ entry = "StreamPartially"
    /\ nones = 2
    /\ is_terminated
    /\ last = Ready(None)
    /\ Len(out) >= 2

\* C10: in the fallible splitter, once a failure has been fetched from the
\* source, the failure is the latest and only failure among the outputs,
\* nothing was emitted after it, and the splitter is terminated.
FailureFetched == \E i \in 1..pos : ~items[i].ok

C10_FailureTerminates ==
    (entry = "TryPartially" /\ FailureFetched) =>
        /\ out # <<>>
        /\ ~out[Len(out)].ok
        /\ \A i \in 1..(Len(out) - 1) : out[i].ok
        /\ is_terminated

\* C11: in the fallible splitter the accumulator that is open when a
\* failure is fetched is discarded by that query and never emitted later;
\* over a source [Ok(small item), Err(E)] the only output ever is Err(E).
LastIsFailure ==
    last.kind = "Ready" /\ last.value # None /\ ~last.value[1].ok

C11_OpenRunDiscarded ==
    entry = "TryPartially" =>
        /\ LastIsFailure => lhs.tag # "Accumulable"
        /\ (Len(items) = 2 /\ items[1].ok /\ items[1].v.size = "Small"
              /\ ~items[2].ok) =>
             (out = <<>> \/ (Len(out) = 1 /\ ~out[1].ok))

\* ------------------------------------------------- fallible sources
HasFailure(src) == \E i \in 1..Len(src) : ~src[i].ok

\* index of the first failure of a source that has one
FirstFailure(src) ==
    CHOOSE i \in 1..Len(src) : ~src[i].ok /\ \A j \in 1..(i - 1) : src[j].ok

\* the successful items, unwrapped
Unwrap(src) == [i \in 1..Len(src) |-> src[i].v]

Front(q) == IF q = <<>> THEN <<>> ELSE SubSeq(q, 1, Len(q) - 1)

\* the runs the non-fallible splitter closes by a rejection over the
\* successes that precede the first failure (all its outputs but the last,
\* which is the run still open when the failure arrives)
ClosedRuns ==
    Front(IterCollect(Unwrap(SubSeq(items, 1, FirstFailure(items) - 1))))

\* C12: over successes followed by a failure, the fallible splitter emits,
\* before the failure, exactly the runs already closed by a rejection, with
\* the values the non-fallible splitter gives them, and the failure is the
\* very next output: the open run is not emitted in between.
C12_FailureAfterClosedRuns ==
    (entry = "TryPartially" /\ HasFailure(items)) =>
        LET closed == ClosedRuns IN
        /\ pos < FirstFailure(items) =>
             /\ Len(out) <= Len(closed)
             /\ \A k \in 1..Len(out) : out[k].ok /\ out[k].v = closed[k]
        /\ pos >= FirstFailure(items) =>
             /\ Len(out) > Len(closed)
             /\ \A k \in 1..Len(closed) : out[k].ok /\ out[k].v = closed[k]
             /\ ~out[Len(closed) + 1].ok

C12_Witness ==
    /\ entry = "TryPartially"
    /\ HasFailure(items)
    /\ FirstFailure(items) >= 3
    /\ pos >= FirstFailure(items)
    /\ Len(ClosedRuns) >= 1
    /\ suspended

\* C13: the asynchronous eager reducer completes exactly once: it is not
\* terminated before a poll has returned Ready, it is terminated from that
\* poll on, it never yields a second result, and every poll made after
\* completion panics.
C13_ReducerCompletesOnce ==
    [][entry = "StreamAccumulate" =>
         /\ ~is_consumed(lhs) => last.kind \in {"NotPolled", "Pending"}
         /\ is_consumed(lhs') <=> last'.kind \in {"Ready", "Panic"}
         /\ is_consumed(lhs) =>
              (is_consumed(lhs') /\ last' = Panic /\ out' = out)
         /\ last'.kind = "Panic" => is_consumed(lhs)
         /\ Len(out') \in {0, 1}
      ]_vars

C13_Witness ==
    /\ entry = "StreamAccumulate"
    /\ requeried
    /\ last = Panic
    /\ out # <<>>
    /\ suspended

\* C14: a query made to the asynchronous or the fallible splitter in the
\* consumed state panics: it returns nothing, emits nothing, fetches
\* nothing and leaves the state consumed; a panic has no other cause.
C14_SplitterRequeryPanics ==
    [][(entry = "StreamPartially" \/ entry = "TryPartially") =>
         /\ is_consumed(lhs) =>
              /\ last' = Panic
              /\ is_consumed(lhs')
              /\ out' = out
              /\ pos' = pos
              /\ nones' = nones
         /\ last'.kind = "Panic" => is_consumed(lhs)
      ]_vars

C14_Witness ==
    /\ entry = "TryPartially"
    /\ last = Panic
    /\ is_terminated
    /\ out # <<>>

\* ------------------------------------------------ the threshold fixture
\* a lazy splitter over a source without failures
SplittingAllOk ==
    \/ entry = "IterPartially"
    \/ entry = "StreamPartially"
    \/ entry = "TryPartially" /\ ~HasFailure(items)

\* the accumulators emitted so far (unwrapped for the fallible splitter)
OutLhs == IF entry = "TryPartially" THEN [k \in 1..Len(out) |-> out[k].v]
                                    ELSE out

AccsOf(os) == [k \in 1..Len(os) |-> os[k].acc]

\* C15: with the sum/threshold fixture, every output of a lazy splitter
\* (synchronous, asynchronous, fallible over successes) is classified as
\* its total says (Large iff total >= N), every output but the last is
\* Large, and a Small output is the final one (it ends the source); the
\* twelve-item example with N = 100 gives 105 L, 110 L, 100 L, 2 S.
C15_ThresholdFixture ==
    /\ SplittingAllOk =>
         \A k \in 1..Len(out) :
            LET a == OutLhs[k].acc IN
            /\ a.volume = SumSeq(OutLhs[k].run)
            /\ a.size \in {"Large", "Small"}
            /\ (a.size = "Large") <=> (a.volume >= N)
            /\ k < Len(out) => a.size = "Large"
            /\ a.size = "Small" =>
                 Len(ConcatRuns(OutLhs)) = Len(items)
    /\ AccsOf(IterCollect(ExampleItems)) = ExampleExpected
    /\ AccsOf(StreamCollect(ExampleItems)) = ExampleExpected
    /\ TryCollect(ExampleOkItems).ok
    /\ AccsOf(TryCollect(ExampleOkItems).v) = ExampleExpected

C15_Witness ==
    /\ entry = "TryPartially"
    /\ ~HasFailure(items)
    /\ is_terminated
    /\ Len(out) >= 3
    /\ out[Len(out)].v.acc.size = "Small"

\* ------------------------------------------------------------ lifecycle
AsyncEngine ==
    entry \in {"StreamAccumulate", "StreamPartially", "TryPartially"}

StatedTransitions ==
    { <<"Uninit", "Accumulable">>,
      <<"Accumulable", "Uninit">>,
      <<"Accumulable", "Consumed">> }

\* C16 (as stated): the internal state changes only by uninitialized ->
\* accumulating, accumulating -> uninitialized and accumulating -> consumed.
C16_LifecycleAsStated ==
    AsyncEngine => steps \subseteq StatedTransitions

\* C16 (amended): the internal state changes only by those three
\* transitions and by uninitialized -> consumed (the source is found
\* exhausted while no run is open); consumed is never left.
C16_Lifecycle ==
    AsyncEngine =>
        steps \subseteq (StatedTransitions \cup {<<"Uninit", "Consumed">>})

C16_Witness ==
    /\ entry = "StreamPartially"
    /\ <<"Uninit", "Accumulable">> \in steps
    /\ <<"Accumulable", "Uninit">> \in steps
    /\ <<"Uninit", "Consumed">> \in steps
    /\ requeried

\* C17: when the asynchronous splitter finds the source exhausted while a
\* run is open, that query emits the run and leaves the state
\* uninitialized, not consumed; the following query fetches from the
\* source once more and, when the source answers exhausted again, reports
\* "no more output" and moves to consumed; consumed is reached no other
\* way over a non-empty source.
C17_ExhaustionWithOpenRun ==
    [][entry = "StreamPartially" =>
         /\ (nones = 0 /\ nones' = 1 /\ items # <<>>) =>
              /\ lhs' = Uninit
              /\ last'.kind = "Ready"
              /\ last'.value # None
              /\ out' = Append(out, last'.value[1])
              /\ ConcatRuns(out') = VolumesOf(items)
         /\ (nones = 1 /\ lhs = Uninit) =>
              \/ /\ last' = Pending
                 /\ lhs' = Uninit
                 /\ nones' = 1
                 /\ out' = out
              \/ /\ last' = Ready(None)
                 /\ is_consumed(lhs')
                 /\ nones' = 2
                 /\ out' = out
         /\ (is_consumed(lhs') /\ items # <<>>) => nones' = 2
      ]_vars

C17_Witness ==
    /\ entry = "StreamPartially"
    /\ nones = 1
    /\ lhs = Uninit
    /\ last = Pending
    /\ Len(out) >= 2

\* ----------------------------------------------------------- suspension
\* the poll of the engine this behaviour is about, from any engine state
EnginePoll(st, p, ready, n) ==
    CASE entry = "StreamAccumulate" -> AccumulatedPoll(items, st, p, ready, n)
      [] entry = "StreamPartially" -> PollNext(items, st, p, ready, n)
      [] entry = "TryPartially" -> TryPollNext(items, st, p, ready, n)

\* one turn of its loop
EngineMatch(st, p, ready, n) ==
    CASE entry = "StreamAccumulate" -> AccumulatedMatch(items, st, p, ready, n)
      [] entry = "StreamPartially" -> PollNextMatch(items, st, p, ready, n)
      [] entry = "TryPartially" -> TryPollNextMatch(items, st, p, ready, n)

Readiness == 0..(Len(items) + 1)

\* C18: in every reachable state of an asynchronous engine, a fetch the
\* source answers with Pending makes the poll return Pending with the
\* state, the open accumulator and the source position untouched; a poll
\* suspended after k answered fetches has consumed exactly those k items,
\* and a later poll continues as if there had been no suspension.
C18_SuspensionLosesNothing ==
    (AsyncEngine /\ ~is_consumed(lhs)) =>
        /\ EngineMatch(lhs, pos, 0, nones) = Break(lhs, pos, Pending, nones)
        /\ \A k \in Readiness :
             LET r == EnginePoll(lhs, pos, k, nones) IN
             r.result.kind = "Pending" =>
                /\ r.pos = pos + k
                /\ r.nones = nones
                /\ ~is_consumed(r.lhs)
                /\ EngineMatch(r.lhs, r.pos, 0, r.nones) = r
                /\ \A j \in Readiness :
                     EnginePoll(r.lhs, r.pos, j, r.nones)
                       = EnginePoll(lhs, pos, k + j, nones)
        /\ last.kind = "Pending" => suspended

C18_Witness ==
    /\ entry = "StreamPartially"
    /\ last = Pending
    /\ lhs.tag = "Accumulable"
    /\ Len(lhs.inner.run) >= 2
    /\ out # <<>>

\* --------------------------------- fallible splitter over successes only
\* what the asynchronous splitter's answer is once wrapped as a success
WrapOk(result) ==
    IF result.kind = "Ready" /\ result.value # None
    THEN Ready(Some(Ok(result.value[1])))
    ELSE result

\* C19: over a source whose items are all successes, from every reachable
\* state and under every Pending/Ready schedule, a query of the fallible
\* splitter answers Ok(acc) for the answer acc the asynchronous splitter
\* gives over the unwrapped items (and Pending, "no more output" alike) and
\* leaves the same state, accumulator and source position; the outputs so
\* far are a prefix of the asynchronous splitter's outputs, and all of them
\* once "no more output" has been reported.
C19_FallibleEqualsAsyncOnSuccesses ==
    (entry = "TryPartially" /\ ~HasFailure(items)) =>
        /\ \A k \in Readiness :
             LET t == TryPollNext(items, lhs, pos, k, nones)
                 a == PollNext(Unwrap(items), lhs, pos, k, nones)
             IN /\ t.result = WrapOk(a.result)
                /\ t.lhs = a.lhs
                /\ t.pos = a.pos
                /\ t.nones = a.nones
        /\ \A k \in 1..Len(out) : out[k].ok
        /\ IsPrefix(OutLhs, StreamCollect(Unwrap(items)))
        /\ nones >= 1 =>
             /\ OutLhs = StreamCollect(Unwrap(items))
             /\ last \in {Ready(None), Panic} \/ lhs = Uninit
        /\ is_terminated => last \in {Ready(None), Panic}

C19_Witness ==
    /\ entry = "TryPartially"
    /\ ~HasFailure(items)
    /\ Len(items) >= 3
    /\ is_terminated
    /\ last = Ready(None)
    /\ suspended
    /\ Len(out) >= 2

\* ------------------------------------------------------------ termination
\* C20: when the caller keeps querying and the source answers every fetch
\* in the end, the asynchronous lazy splitter eventually answers "no more
\* output" with its state consumed, the asynchronous eager reducer
\* eventually completes, and the synchronous splitter eventually answers
\* None; none of them ever emits more outputs than the source has items.
C20_Termination ==
    /\ <>(CASE entry = "StreamPartially" ->
                  /\ last = Ready(None)
                  /\ is_consumed(lhs)
                  /\ Len(out) <= Len(items)
             [] entry = "StreamAccumulate" ->
                  /\ last.kind = "Ready"
                  /\ is_consumed(lhs)
                  /\ pos = Len(items)
             [] entry = "IterPartially" ->
                  /\ last = Ready(None)
                  /\ Len(out) <= Len(items)
             [] OTHER -> TRUE)
    /\ [](entry \in {"StreamPartially", "StreamAccumulate", "IterPartially"}
            => Len(out) <= Len(items))

C20_Witness ==
    /\ entry = "StreamPartially"
    /\ Len(items) >= 2
    /\ Len(out) = Len(items)
    /\ last = Ready(None)
    /\ is_consumed(lhs)
    /\ suspended

\* ------------------------------------------- entering the consumed state
\* C21: the asynchronous lazy splitter enters the consumed state only by a
\* query that starts in the uninitialized state with the source exhausted;
\* that query answers "no more output" and emits nothing, every item is
\* already covered by an emitted run, and the state is consumed exactly when
\* a query has answered "no more output" (the last answer is that one, or
\* the panic of a query made after it).
C21_ConsumedOnlyWhenEmpty ==
    /\ [](entry = "StreamPartially" =>
            /\ is_terminated <=> last \in {Ready(None), Panic}
            /\ is_terminated =>
                 /\ pos = Len(items)
                 /\ ConcatRuns(out) = VolumesOf(items)
            /\ is_terminated <=> <<"Uninit", "Consumed">> \in steps
            /\ <<"Accumulable", "Consumed">> \notin steps)
    /\ [][entry = "StreamPartially" =>
            /\ (is_consumed(lhs') /\ ~is_consumed(lhs)) =>
                 /\ lhs = Uninit
                 /\ pos = Len(items)
                 /\ pos' = pos
                 /\ out' = out
                 /\ last' = Ready(None)
            /\ is_consumed(lhs') <=> (is_consumed(lhs) \/ last' = Ready(None))
            /\ last' = Panic => is_consumed(lhs)
         ]_vars

C21_Witness ==
    /\ entry = "StreamPartially"
    /\ is_terminated
    /\ last = Ready(None)
    /\ nones = 2
    /\ Len(out) = 1
    /\ Len(items) >= 3
    /\ ~suspended

\* ----------------------------------------------------------- no empty run
\* a lazy splitter, of any of the three kinds
Splitter == entry \in {"IterPartially", "StreamPartially", "TryPartially"}

IsAcc(o) == IF entry = "TryPartially" THEN o.ok ELSE TRUE
AccOf(o) == IF entry = "TryPartially" THEN o.v ELSE o

\* the accumulators among the outputs so far, and the failures among them
EmittedAccs ==
    LET RECURSIVE Pick(_)
        Pick(k) == IF k = 0 THEN <<>>
                   ELSE IF IsAcc(out[k]) THEN Append(Pick(k - 1), AccOf(out[k]))
                   ELSE Pick(k - 1)
    IN Pick(Len(out))

EmittedFailures == Cardinality({k \in 1..Len(out) : ~IsAcc(out[k])})

\* C22: every accumulator a lazy splitter has emitted, and the one it holds
\* open, covers at least one source item: its first item is the seed, taken
\* as From gives it, and its total is the sum of the items it covers; the
\* items pulled so far are exactly the ones covered by the outputs, by the
\* open accumulator or by the lookahead slot, so the number of outputs never
\* exceeds the number of items pulled.
C22_NoEmptyRun ==
    Splitter =>
        /\ \A k \in 1..Len(EmittedAccs) :
             LET a == EmittedAccs[k] IN
             /\ Len(a.run) >= 1
             /\ volume_value(a.acc) = SumSeq(a.run)
             /\ Len(a.run) = 1 => a = LhsFrom(VolumeSizeNew(a.run[1]))
        /\ lhs.tag = "Accumulable" => Len(lhs.inner.run) >= 1
        /\ Len(ConcatRuns(EmittedAccs)) + EmittedFailures
             + Len(OpenRun) + Len(PeekedRun) = pos
        /\ Len(out) <= pos

C22_Witness ==
    /\ entry = "TryPartially"
    /\ HasFailure(items)
    /\ Len(out) = pos
    /\ pos >= 3
    /\ Len(EmittedAccs) >= 2

====
